---- MODULE Spec2Model ----
(***************************************************************************)
(* Model of the sales dashboard API server (src/server.js).                *)
(*                                                                         *)
(* The server is stateless between requests: every handler re-reads        *)
(* sales.json (salesData), filters it and folds it into a response.        *)
(*                                                                         *)
(* Representation                                                          *)
(*   - strings are TLA+ strings; a missing query parameter is `undefined'. *)
(*   - Sales and Profit are fixed-point numbers in tenths, Discount is in  *)
(*     hundredths; binary floating point error is abstracted away.         *)
(*   - a JS number that may be NaN is a record [nan, v].                   *)
(*   - a Date is its time value, counted in days (an order-preserving      *)
(*     image of the millisecond time value of a date-only ISO string,      *)
(*     which JS parses as UTC midnight).                                   *)
(*   - a JS object used as a dictionary is the sequence of its entries in  *)
(*     property enumeration order.                                         *)
(*   - a period key is the sequence of its number fields.                  *)
(*   - the time zone of the server matters only through the side of UTC it *)
(*     lies on: the local-time getters see UTC midnight as the same day at *)
(*     or east of Greenwich and as the previous day west of it.            *)
(***************************************************************************)
EXTENDS Integers, Sequences, FiniteSets, TLC

VARIABLES
  salesData,     \* the array loadSalesData() returns
  tzWest,        \* the server's local time zone is behind UTC
  request,       \* the request being handled
  filterResult,  \* what the handler's call of filterData returned
  response       \* the status and body the handler produced

vars == <<salesData, tzWest, request, filterResult, response>>

----------------------------------------------------------------------------
(* Bounds *)

\* the longest dataset of the general family
MaxLen == 3

\* the longest dataset of the family with more groups than a top-N keeps
MaxTopLen == 11

----------------------------------------------------------------------------
(* JS values *)

undefined == "\\undefined"

NaN == [nan |-> TRUE, v |-> 0]

Num(n) == [nan |-> FALSE, v |-> n]

\* ToBoolean of a string-or-undefined value: `!x' is ~Truthy(x)
Truthy(s) == s # undefined /\ s # ""

\* Math.round on a rational n/d (d > 0): floor(n/d + 1/2)
MathRound(n, d) == (2 * n + d) \div (2 * d)

\* Math.round of a Sales/Profit amount held in tenths
RoundTenths(x) == MathRound(x, 10)

Range(s) == {s[i] : i \in 1..Len(s)}

\* Array.prototype.filter with the predicate given as the set of passing
\* indices: keeps the elements in order
RECURSIVE FilterIdx(_, _, _)
FilterIdx(s, keep, n) ==
  IF n = 0 THEN <<>>
  ELSE IF n \in keep THEN Append(FilterIdx(s, keep, n - 1), s[n])
       ELSE FilterIdx(s, keep, n - 1)

\* Array.prototype.reduce((sum, item) => sum + f(item), 0) over the first n
\* elements of a sequence of integers
RECURSIVE ReduceSum(_, _)
ReduceSum(s, n) == IF n = 0 THEN 0 ELSE ReduceSum(s, n - 1) + s[n]

\* The indices 1..n in sorted order, cmp[i][j] being the value of
\* compareFn(s[i], s[j]): element n goes behind every earlier element that
\* the comparison does not put after it
RECURSIVE SortedIndices(_, _)
SortedIndices(cmp, n) ==
  IF n = 0 THEN <<>>
  ELSE LET perm == SortedIndices(cmp, n - 1)
           p == Cardinality({q \in 1..(n - 1) : cmp[perm[q]][n] <= 0})
       IN SubSeq(perm, 1, p) \o <<n>> \o SubSeq(perm, p + 1, n - 1)

\* Array.prototype.sort(compareFn): a stable sort
SortBy(s, cmp) ==
  LET perm == SortedIndices(cmp, Len(s))
  IN [k \in 1..Len(s) |-> s[perm[k]]]

\* Array.prototype.slice(0, n)
Slice(s, n) == IF Len(s) <= n THEN s ELSE SubSeq(s, 1, n)

----------------------------------------------------------------------------
(* Dates *)

IsoDates == {"2015-12-31", "2016-01-01", "2016-01-20", "2016-02-01"}

\* year, month, day of a date-only ISO string
YMD(s) ==
  CASE s = "2015-12-31" -> <<2015, 12, 31>>
    [] s = "2016-01-01" -> <<2016, 1, 1>>
    [] s = "2016-01-20" -> <<2016, 1, 20>>
    [] s = "2016-02-01" -> <<2016, 2, 1>>

DayNumber(t) == t[1] * 372 + (t[2] - 1) * 31 + (t[3] - 1)

DateOfDay(n) == <<n \div 372, ((n % 372) \div 31) + 1, (n % 31) + 1>>

\* new Date(dateString): the time value, NaN for an unparseable string
parseDate(dateString) ==
  IF dateString \in IsoDates THEN Num(DayNumber(YMD(dateString))) ELSE NaN

\* relational operators on time values: false when either side is NaN
GE(a, b) == ~a.nan /\ ~b.nan /\ a.v >= b.v

LE(a, b) == ~a.nan /\ ~b.nan /\ a.v <= b.v

DaysInMonth(y, m) ==
  IF m = 2 THEN (IF y % 4 = 0 /\ (y % 100 # 0 \/ y % 400 = 0) THEN 29 ELSE 28)
  ELSE IF m \in {4, 6, 9, 11} THEN 30 ELSE 31

PrevDay(t) ==
  IF t[3] > 1 THEN <<t[1], t[2], t[3] - 1>>
  ELSE IF t[2] > 1 THEN <<t[1], t[2] - 1, DaysInMonth(t[1], t[2] - 1)>>
  ELSE <<t[1] - 1, 12, 31>>

\* The calendar date in the server's local time zone of a valid time value.
\* The time value is UTC midnight: west of Greenwich that instant is still
\* the previous day.
LocalDate(d) == IF tzWest THEN PrevDay(DateOfDay(d.v)) ELSE DateOfDay(d.v)

\* The text "NaN" as a field of a period key
NaNText == 0 - 1

\* Date.prototype.getFullYear()
getFullYear(d) == IF d.nan THEN NaNText ELSE LocalDate(d)[1]

\* Date.prototype.getMonth() + 1
getMonthPlus1(d) == IF d.nan THEN NaNText ELSE LocalDate(d)[2]

\* Date.prototype.toISOString().split("T")[0] of a valid time value
toISODate(d) == CHOOSE s \in IsoDates : YMD(s) = DateOfDay(d.v)

----------------------------------------------------------------------------
(* filterData *)

\* filterData with `state === undefined' in place of `!state'
filterData_emptyStateFilters(data, state, fromDate, toDate) ==
  LET pass(item) ==
        LET itemDate == parseDate(item.OrderDate)
            stateMatch == state = undefined \/ item.State = state
            dateMatch ==
              /\ (~Truthy(fromDate) \/ GE(itemDate, parseDate(fromDate)))
              /\ (~Truthy(toDate) \/ LE(itemDate, parseDate(toDate)))
        IN stateMatch /\ dateMatch
  IN FilterIdx(data, {i \in 1..Len(data) : pass(data[i])}, Len(data))

filterData(data, state, fromDate, toDate) ==
  LET pass(item) ==
        LET itemDate == parseDate(item.OrderDate)
            stateMatch == ~Truthy(state) \/ item.State = state
            dateMatch ==
              /\ (~Truthy(fromDate) \/ GE(itemDate, parseDate(fromDate)))
              /\ (~Truthy(toDate) \/ LE(itemDate, parseDate(toDate)))
        IN stateMatch /\ dateMatch
  IN FilterIdx(data, {i \in 1..Len(data) : pass(data[i])}, Len(data))

\* filteredData.filter((item) => item["Customer ID"] === customerId),
\* applied only when customerId is truthy
filterCustomer(data, customerId) ==
  IF Truthy(customerId)
  THEN FilterIdx(data, {i \in 1..Len(data) : data[i].CustomerID = customerId},
                 Len(data))
  ELSE data

----------------------------------------------------------------------------
(* Plain objects used as dictionaries *)

\* The array-index value of a string key, -1 when the key is not an
\* integer index.  Integer keys are enumerated first, in ascending order.
StrIndex(k) ==
  CASE k = "7" -> 7
    [] k = "10" -> 10
    [] OTHER -> 0 - 1

ObjHas(obj, k) == \E i \in 1..Len(obj) : obj[i].key = k

ObjGet(obj, k) == obj[CHOOSE i \in 1..Len(obj) : obj[i].key = k].val

\* obj[k] = v: an existing property keeps its place; a new integer key goes
\* among the integer keys in ascending order; any other new key goes last
ObjSet(obj, k, idx, v) ==
  IF ObjHas(obj, k)
  THEN [i \in 1..Len(obj) |-> IF obj[i].key = k THEN [obj[i] EXCEPT !.val = v]
                              ELSE obj[i]]
  ELSE LET e == [key |-> k, idx |-> idx, val |-> v]
           ahead == IF idx >= 0
                    THEN {i \in 1..Len(obj) : obj[i].idx >= 0 /\ obj[i].idx < idx}
                    ELSE 1..Len(obj)
           p == Cardinality(ahead)
       IN SubSeq(obj, 1, p) \o <<e>> \o SubSeq(obj, p + 1, Len(obj))

\* const acc = {}; data.forEach((item) => { if (!acc[key]) acc[key] = 0;
\* acc[key] += item.Sales; }) over the first n items
RECURSIVE groupSales(_, _, _)
groupSales(keys, sales, n) ==
  IF n = 0 THEN <<>>
  ELSE LET obj == groupSales(keys, sales, n - 1)
           k == keys[n]
           cur == IF ~ObjHas(obj, k) THEN 0
                  ELSE IF ObjGet(obj, k) = 0 THEN 0 ELSE ObjGet(obj, k)
       IN ObjSet(obj, k, StrIndex(k), cur + sales[n])

\* Object.entries(acc).map(([key, sales]) => ({key, sales: Math.round(sales)}));
\* the field the source names city, productName, category, subCategory or
\* segment is named key
roundedEntries(obj) ==
  [i \in 1..Len(obj) |-> [key |-> obj[i].key, sales |-> RoundTenths(obj[i].val)]]

\* (a, b) => b.sales - a.sales, on every pair of elements
bySalesDesc(s) == [i \in 1..Len(s) |-> [j \in 1..Len(s) |-> s[j].sales - s[i].sales]]

TopN == 10

\* the first ten entries taken before the sort instead of after it
topBySales_sliceFirst(entries) ==
  SortBy(Slice(entries, TopN), bySalesDesc(Slice(entries, TopN)))

\* .sort((a, b) => b.sales - a.sales).slice(0, 10)
topBySales(entries) == Slice(SortBy(entries, bySalesDesc(entries)), TopN)

----------------------------------------------------------------------------
(* Requests and responses *)

NoRequest == [route |-> "none"]

NoResponse == [status |-> 0]

Ok(d) == [status |-> 200, success |-> TRUE, data |-> d]

\* the catch block of a handler
Error500 == [status |-> 500, success |-> FALSE]

NotFound404 == [status |-> 404, success |-> FALSE]

----------------------------------------------------------------------------
(* GET /api/dashboard-data *)

\* the mean taken over every record, the undiscounted ones included
discountPercentage_allRecords(data) ==
  LET n == Len(data)
      total == ReduceSum([i \in 1..n |-> data[i].Discount], n)
  IN IF n > 0 THEN Num(MathRound(total * 10, n)) ELSE Num(0)

\* the mean taken without the guard on discountData.length: 0 / 0
discountPercentage_unguarded(data) ==
  LET discountData == FilterIdx(data, {i \in 1..Len(data) : data[i].Discount > 0},
                                Len(data))
      n == Len(discountData)
      total == ReduceSum([i \in 1..n |-> discountData[i].Discount], n)
  IN IF n > 0 THEN Num(MathRound(total * 10, n)) ELSE NaN

\* Math.round(avgDiscount * 10) / 10, in tenths of a percent
discountPercentage(data) ==
  LET discountData == FilterIdx(data, {i \in 1..Len(data) : data[i].Discount > 0},
                                Len(data))
      n == Len(discountData)
      total == ReduceSum([i \in 1..n |-> discountData[i].Discount], n)
  IN IF n > 0 THEN Num(MathRound(total * 10, n)) ELSE Num(0)

cards(data) ==
  LET n == Len(data)
  IN [totalSales |-> RoundTenths(ReduceSum([i \in 1..n |-> data[i].Sales], n)),
      quantitySold |-> ReduceSum([i \in 1..n |-> data[i].Quantity], n),
      discountPercentage |-> discountPercentage(data),
      profit |-> RoundTenths(ReduceSum([i \in 1..n |-> data[i].Profit], n))]

charts(data) ==
  LET n == Len(data)
      sales == [i \in 1..n |-> data[i].Sales]
  IN [salesByCity |->
        topBySales(roundedEntries(groupSales([i \in 1..n |-> data[i].City], sales, n))),
      salesByProducts |->
        topBySales(roundedEntries(groupSales([i \in 1..n |-> data[i].ProductName], sales, n))),
      salesByCategory |->
        roundedEntries(groupSales([i \in 1..n |-> data[i].Category], sales, n)),
      salesBySubCategory |->
        topBySales(roundedEntries(groupSales([i \in 1..n |-> data[i].SubCategory], sales, n))),
      salesBySegment |->
        roundedEntries(groupSales([i \in 1..n |-> data[i].Segment], sales, n))]

dashboardData(req) ==
  LET filteredData == filterCustomer(
                        filterData(salesData, req.state, req.fromDate, req.toDate),
                        req.customerId)
  IN Ok([cards |-> cards(filteredData), charts |-> charts(filteredData)])

----------------------------------------------------------------------------
(* GET /api/date-range/:state *)

SeqMin(s) == CHOOSE x \in Range(s) : \A y \in Range(s) : x <= y

SeqMax(s) == CHOOSE x \in Range(s) : \A y \in Range(s) : x >= y

\* Math.min(...dates), Math.max(...dates) make NaN of any NaN argument, and
\* new Date(NaN).toISOString() throws a RangeError, which the handler's catch
\* turns into the 500 response
dateRange(req) ==
  LET stateData == FilterIdx(salesData,
                     {i \in 1..Len(salesData) : salesData[i].State = req.state},
                     Len(salesData))
      dates == [i \in 1..Len(stateData) |-> parseDate(stateData[i].OrderDate)]
      times == [i \in 1..Len(dates) |-> dates[i].v]
  IN IF Len(stateData) = 0 THEN NotFound404
     ELSE IF \E i \in 1..Len(dates) : dates[i].nan THEN Error500
     ELSE Ok([minDate |-> toISODate(Num(SeqMin(times))),
              maxDate |-> toISODate(Num(SeqMax(times)))])

----------------------------------------------------------------------------
(* GET /api/customers *)

\* collation rank of a customer name under String.prototype.localeCompare
NameRank(name) ==
  CASE name = "Ann" -> 1
    [] name = "Anne" -> 2
    [] name = "Bob" -> 3

\* (a, b) => a.name.localeCompare(b.name), on every pair of elements
byName(s) ==
  [i \in 1..Len(s) |-> [j \in 1..Len(s) |-> NameRank(s[i].name) - NameRank(s[j].name)]]

\* [...new Set(salesData.map((item) => ({id, name})))]: every element of
\* the mapped array is a fresh object, and a Set compares objects by
\* identity, so the Set keeps them all
customerObjects(data) ==
  [i \in 1..Len(data) |-> [id |-> data[i].CustomerID, name |-> data[i].CustomerName]]

customers(req) ==
  Ok(SortBy(customerObjects(salesData), byName(customerObjects(salesData))))

----------------------------------------------------------------------------
(* GET /api/sales-trend *)

\* the period key as its sequence of number fields: <<y, m>> for "YYYY-MM",
\* <<y>> for "YYYY", <<y, m, d>> for "YYYY-MM-DD"
periodKey(period, date) ==
  IF period = "monthly" THEN <<getFullYear(date), getMonthPlus1(date)>>
  ELSE IF period = "yearly" THEN <<getFullYear(date)>>
  ELSE YMD(toISODate(date))

\* a key made of a year alone is an integer index of the trendData object
KeyIndex(k) == IF Len(k) = 1 /\ k[1] # NaNText THEN k[1] ELSE 0 - 1

\* the forEach over the first n items
RECURSIVE trendGroups(_, _, _)
trendGroups(data, period, n) ==
  IF n = 0 THEN <<>>
  ELSE LET obj == trendGroups(data, period, n - 1)
           item == data[n]
           k == periodKey(period, parseDate(item.OrderDate))
           cur == IF ObjHas(obj, k) THEN ObjGet(obj, k)
                  ELSE [period |-> k, sales |-> 0, profit |-> 0, quantity |-> 0]
       IN ObjSet(obj, k, KeyIndex(k),
                 [cur EXCEPT !.sales = @ + item.Sales,
                             !.profit = @ + item.Profit,
                             !.quantity = @ + item.Quantity])

\* a.localeCompare(b) on the fields of two keys; "NaN" collates after digits
FieldCompare(x, y) ==
  IF x = y THEN 0
  ELSE IF x = NaNText THEN 1
  ELSE IF y = NaNText THEN 0 - 1
  ELSE IF x < y THEN 0 - 1 ELSE 1

RECURSIVE KeyCompare(_, _, _)
KeyCompare(a, b, i) ==
  IF i > Len(a) /\ i > Len(b) THEN 0
  ELSE IF i > Len(a) THEN 0 - 1
  ELSE IF i > Len(b) THEN 1
  ELSE IF FieldCompare(a[i], b[i]) # 0 THEN FieldCompare(a[i], b[i])
  ELSE KeyCompare(a, b, i + 1)

\* (a, b) => a.period.localeCompare(b.period), on every pair of elements
byPeriod(s) ==
  [i \in 1..Len(s) |-> [j \in 1..Len(s) |-> KeyCompare(s[i].period, s[j].period, 1)]]

\* the entries rounded but left in the order of Object.values
trendArray_unsorted(obj) ==
  [i \in 1..Len(obj) |->
     [obj[i].val EXCEPT !.sales = RoundTenths(@), !.profit = RoundTenths(@)]]

trendArray(obj) ==
  LET rounded == [i \in 1..Len(obj) |->
                    [obj[i].val EXCEPT !.sales = RoundTenths(@),
                                       !.profit = RoundTenths(@)]]
  IN SortBy(rounded, byPeriod(rounded))

\* period = "monthly" in the destructuring: the default of a missing parameter
effectivePeriod(p) == IF p = undefined THEN "monthly" ELSE p

salesTrend(req) ==
  LET period == effectivePeriod(req.period)
      filteredData == filterCustomer(
                        filterData(salesData, req.state, req.fromDate, req.toDate),
                        req.customerId)
      n == Len(filteredData)
      \* date.toISOString() throws a RangeError on an invalid Date
      throws == /\ period \notin {"monthly", "yearly"}
                /\ \E i \in 1..n : parseDate(filteredData[i].OrderDate).nan
  IN IF throws THEN Error500
     ELSE Ok(trendArray(trendGroups(filteredData, period, n)))

----------------------------------------------------------------------------
(* GET /api/analytics *)

\* the productPerformance forEach over the first n items
RECURSIVE productPerformance(_, _)
productPerformance(data, n) ==
  IF n = 0 THEN <<>>
  ELSE LET obj == productPerformance(data, n - 1)
           item == data[n]
           k == item.ProductName
           cur == IF ObjHas(obj, k) THEN ObjGet(obj, k)
                  ELSE [productName |-> k, category |-> item.Category,
                        totalSales |-> 0, totalProfit |-> 0,
                        totalQuantity |-> 0, orderCount |-> 0]
       IN ObjSet(obj, k, StrIndex(k),
                 [cur EXCEPT !.totalSales = @ + item.Sales,
                             !.totalProfit = @ + item.Profit,
                             !.totalQuantity = @ + item.Quantity,
                             !.orderCount = @ + 1])

\* (a, b) => b.totalSales - a.totalSales, on every pair of elements
byTotalSalesDesc(s) ==
  [i \in 1..Len(s) |-> [j \in 1..Len(s) |-> s[j].totalSales - s[i].totalSales]]

\* topProducts dividing the rounded totalSales instead of the accumulator
topProducts_roundFirst(obj) ==
  LET mapped == [i \in 1..Len(obj) |->
                   LET item == obj[i].val
                   IN [productName |-> item.productName,
                       category |-> item.category,
                       totalSales |-> RoundTenths(item.totalSales),
                       totalProfit |-> RoundTenths(item.totalProfit),
                       totalQuantity |-> item.totalQuantity,
                       orderCount |-> item.orderCount,
                       avgOrderValue |->
                         MathRound(RoundTenths(item.totalSales),
                                   item.orderCount)]]
  IN Slice(SortBy(mapped, byTotalSalesDesc(mapped)), TopN)

\* inside the map callback `item' is still the accumulator, so avgOrderValue
\* divides the unrounded sum
topProducts(obj) ==
  LET mapped == [i \in 1..Len(obj) |->
                   LET item == obj[i].val
                   IN [productName |-> item.productName,
                       category |-> item.category,
                       totalSales |-> RoundTenths(item.totalSales),
                       totalProfit |-> RoundTenths(item.totalProfit),
                       totalQuantity |-> item.totalQuantity,
                       orderCount |-> item.orderCount,
                       avgOrderValue |->
                         MathRound(item.totalSales, 10 * item.orderCount)]]
  IN Slice(SortBy(mapped, byTotalSalesDesc(mapped)), TopN)

\* the regionalPerformance forEach over the first n items
RECURSIVE regionalPerformance(_, _)
regionalPerformance(data, n) ==
  IF n = 0 THEN <<>>
  ELSE LET obj == regionalPerformance(data, n - 1)
           item == data[n]
           k == item.Region
           cur == IF ObjHas(obj, k) THEN ObjGet(obj, k)
                  ELSE [region |-> k, sales |-> 0, profit |-> 0, orders |-> 0]
       IN ObjSet(obj, k, StrIndex(k),
                 [cur EXCEPT !.sales = @ + item.Sales,
                             !.profit = @ + item.Profit,
                             !.orders = @ + 1])

regionArray(obj) ==
  [i \in 1..Len(obj) |->
     LET item == obj[i].val
     IN [region |-> item.region,
         sales |-> RoundTenths(item.sales),
         profit |-> RoundTenths(item.profit),
         orders |-> item.orders,
         avgOrderValue |-> MathRound(item.sales, 10 * item.orders)]]

\* the summary with the division guarded against an empty set
summary_guarded(data) ==
  LET n == Len(data)
  IN [totalOrders |-> n,
      uniqueCustomers |-> Cardinality({data[i].CustomerID : i \in 1..n}),
      avgOrderValue |->
        IF n = 0 THEN Num(0)
        ELSE Num(MathRound(ReduceSum([i \in 1..n |-> data[i].Sales], n), 10 * n)),
      totalCategories |-> Cardinality({data[i].Category : i \in 1..n})]

\* Math.round(total / filteredData.length): 0 / 0 is NaN
summary(data) ==
  LET n == Len(data)
  IN [totalOrders |-> n,
      uniqueCustomers |-> Cardinality({data[i].CustomerID : i \in 1..n}),
      avgOrderValue |->
        IF n = 0 THEN NaN
        ELSE Num(MathRound(ReduceSum([i \in 1..n |-> data[i].Sales], n), 10 * n)),
      totalCategories |-> Cardinality({data[i].Category : i \in 1..n})]

\* only state, fromDate and toDate are read from the query
analytics(req) ==
  LET filteredData == filterData(salesData, req.state, req.fromDate, req.toDate)
      n == Len(filteredData)
  IN Ok([topProducts |-> topProducts(productPerformance(filteredData, n)),
         regionalPerformance |-> regionArray(regionalPerformance(filteredData, n)),
         summary |-> summary(filteredData)])

----------------------------------------------------------------------------
(* The contents of sales.json *)

Rec(date, state, id, name, city, product, category, sub, segment, region, sales, profit, quantity, discount) ==
  [OrderDate |-> date, State |-> state, CustomerID |-> id, CustomerName |-> name,
   City |-> city, ProductName |-> product, Category |-> category,
   SubCategory |-> sub, Segment |-> segment, Region |-> region,
   Sales |-> sales, Profit |-> profit, Quantity |-> quantity, Discount |-> discount]

\* Sales 10.5, Profit -2.5, no discount
R1 == Rec("2016-01-01", "California", "C1", "Ann", "Los Angeles", "Chair",
          "Furniture", "Chairs", "Consumer", "West", 105, 0 - 25, 1, 0)

R2 == Rec("2016-01-20", "California", "C1", "Ann", "Los Angeles", "Desk",
          "Furniture", "Tables", "Consumer", "West", 204, 15, 2, 20)

R3 == Rec("2015-12-31", "Texas", "C2", "Bob", "Austin", "Chair",
          "Furniture", "Chairs", "Corporate", "Central", 5, 4, 3, 25)

\* a record whose Order Date does not parse
R4 == Rec("not-a-date", "California", "C2", "Bob", "Fresno", "Pen",
          "Office Supplies", "Art", "Corporate", "West", 14, 5, 1, 15)

\* the customer id of R1 under another spelling of the name
R5 == Rec("2016-02-01", "Texas", "C1", "Anne", "Austin", "Pen",
          "Office Supplies", "Art", "Consumer", "Central", 1005, 300, 4, 0)

Records == {R1, R2, R3, R4, R5}

Datasets == UNION {[1..n -> Records] : n \in 0..MaxLen}

\* Datasets with more than TopN groups.  The keys of record i of n are
\* drawn from one pool, two of whose members are integer keys.
KeyPool ==
  <<"Austin", "10", "Boston", "Chicago", "7", "Dallas", "El Paso", "Fresno",
    "Houston", "Irvine", "Jackson", "Kent", "Lincoln", "Miami">>

Layouts == {"distinct", "wrapped", "reversed"}

Slot(layout, i, n) ==
  IF layout = "distinct" THEN i
  ELSE IF layout = "wrapped" THEN ((i - 1) % TopN) + 1
  ELSE n + 1 - i

TopRec(layout, i, n, sales) ==
  Rec("2016-01-20", "California",
      IF i % 2 = 1 THEN "C1" ELSE "C2", IF i % 2 = 1 THEN "Ann" ELSE "Bob",
      KeyPool[Slot(layout, i, n)], KeyPool[n + 1 - Slot(layout, i, n)],
      IF i % 3 = 0 THEN "Technology" ELSE "Furniture",
      KeyPool[Slot("reversed", i, n)],
      "Consumer", IF i % 2 = 1 THEN "West" ELSE "East",
      sales, 5, 1, 0)

TopSales == {14, 16}

TopDataset(layout, n, amounts) ==
  [i \in 1..n |-> TopRec(layout, i, n, amounts[i])]

----------------------------------------------------------------------------
(* Query parameters *)

QStates == {undefined, "", "California", "Nevada"}

QFrom == {undefined, "", "2016-01-01", "yesterday"}

QTo == {undefined, "2016-01-20"}

QCustomers == {undefined, "C1", "C9"}

QPeriods == {undefined, "monthly", "yearly", "daily", "weekly"}

PathStates == {"California", "Texas", "Nevada"}

Req(route, state, fromDate, toDate, customerId, period) ==
  [route |-> route, state |-> state, fromDate |-> fromDate, toDate |-> toDate,
   customerId |-> customerId, period |-> period]

Requests ==
  {Req("dashboard-data", s, f, t, c, undefined) :
     s \in QStates, f \in QFrom, t \in QTo, c \in QCustomers}
  \cup {Req("analytics", s, f, t, c, undefined) :
          s \in QStates, f \in QFrom, t \in QTo, c \in {undefined, "C9"}}
  \cup {Req("sales-trend", s, f, t, c, p) :
          s \in {undefined, "California"}, f \in QFrom, t \in QTo,
          c \in {undefined, "C1"}, p \in QPeriods}
  \cup {Req("date-range", s, undefined, undefined, undefined, undefined) :
          s \in PathStates}
  \cup {Req("customers", undefined, undefined, undefined, undefined, undefined)}

TopRequests ==
  {Req(r, undefined, undefined, undefined, undefined, undefined) :
     r \in {"dashboard-data", "analytics"}}

----------------------------------------------------------------------------
(* The server *)

Init ==
  /\ salesData \in Datasets
  /\ tzWest \in BOOLEAN
  /\ request = NoRequest
  /\ filterResult = <<>>
  /\ response = NoResponse

\* Express dispatches a GET request to its route
Receive ==
  /\ request = NoRequest
  /\ request' \in Requests
  /\ UNCHANGED <<salesData, tzWest, filterResult, response>>

\* const { state } = req.params; ... res.json / res.status(404) / catch
DateRange ==
  /\ request # NoRequest
  /\ request.route = "date-range"
  /\ response = NoResponse
  /\ response' = dateRange(request)
  /\ UNCHANGED <<salesData, tzWest, request, filterResult>>

DashboardData ==
  /\ request # NoRequest
  /\ request.route = "dashboard-data"
  /\ response = NoResponse
  /\ filterResult' = filterData(salesData, request.state, request.fromDate,
                                request.toDate)
  /\ response' = dashboardData(request)
  /\ UNCHANGED <<salesData, tzWest, request>>

Customers ==
  /\ request # NoRequest
  /\ request.route = "customers"
  /\ response = NoResponse
  /\ response' = customers(request)
  /\ UNCHANGED <<salesData, tzWest, request, filterResult>>

SalesTrend ==
  /\ request # NoRequest
  /\ request.route = "sales-trend"
  /\ response = NoResponse
  /\ filterResult' = filterData(salesData, request.state, request.fromDate,
                                request.toDate)
  /\ response' = salesTrend(request)
  /\ UNCHANGED <<salesData, tzWest, request>>

Analytics ==
  /\ request # NoRequest
  /\ request.route = "analytics"
  /\ response = NoResponse
  /\ filterResult' = filterData(salesData, request.state, request.fromDate,
                                request.toDate)
  /\ response' = analytics(request)
  /\ UNCHANGED <<salesData, tzWest, request>>

\* res.json(...) ends the request
Send ==
  /\ response # NoResponse
  /\ request' = NoRequest
  /\ filterResult' = <<>>
  /\ response' = NoResponse
  /\ UNCHANGED <<salesData, tzWest>>

Next ==
  \/ Receive
  \/ DateRange
  \/ DashboardData
  \/ Customers
  \/ SalesTrend
  \/ Analytics
  \/ Send

Spec == Init /\ [][Next]_vars

\* The server over the datasets with more than TopN groups
InitTop ==
  /\ \E n \in (TopN + 1)..MaxTopLen :
       \E layout \in Layouts, amounts \in [1..n -> TopSales] :
         salesData = TopDataset(layout, n, amounts)
  /\ tzWest = FALSE
  /\ request = NoRequest
  /\ filterResult = <<>>
  /\ response = NoResponse

ReceiveTop ==
  /\ request = NoRequest
  /\ request' \in TopRequests
  /\ UNCHANGED <<salesData, tzWest, filterResult, response>>

NextTop ==
  \/ ReceiveTop
  \/ DashboardData
  \/ Analytics
  \/ Send

SpecTop == InitTop /\ [][NextTop]_vars

----------------------------------------------------------------------------
(* Vocabulary of the properties *)

Responded(route) == request # NoRequest /\ request.route = route /\ response # NoResponse

\* the elements of s at the indices in S, in ascending order of index
Pick(s, S) ==
  [k \in 1..Cardinality(S) |->
     s[CHOOSE i \in S : Cardinality({j \in S : j < i}) = k - 1]]

IsSubsequence(a, b) == \E S \in SUBSET (1..Len(b)) : a = Pick(b, S)

Given(x) == x # undefined /\ x # ""

\* the calendar order of two date-only ISO strings
DateLeq(a, b) ==
  LET x == YMD(a)
      y == YMD(b)
  IN \/ x[1] < y[1]
     \/ x[1] = y[1] /\ x[2] < y[2]
     \/ x[1] = y[1] /\ x[2] = y[2] /\ x[3] <= y[3]

\* the record lies in the inclusive date range of the query; a date that
\* does not parse lies in no range
InDateRange(item, req) ==
  /\ Given(req.fromDate) =>
       /\ item.OrderDate \in IsoDates
       /\ req.fromDate \in IsoDates
       /\ DateLeq(req.fromDate, item.OrderDate)
  /\ Given(req.toDate) =>
       /\ item.OrderDate \in IsoDates
       /\ req.toDate \in IsoDates
       /\ DateLeq(item.OrderDate, req.toDate)

\* the indices of the records of salesData the query selects
Selected(req, withCustomer) ==
  {i \in 1..Len(salesData) :
     /\ Given(req.state) => salesData[i].State = req.state
     /\ InDateRange(salesData[i], req)
     /\ (withCustomer /\ Given(req.customerId)) =>
          salesData[i].CustomerID = req.customerId}

RECURSIVE SetSum(_, _)
SetSum(f, S) ==
  IF S = {} THEN 0
  ELSE LET i == CHOOSE j \in S : TRUE IN f[i] + SetSum(f, S \ {i})

\* r is n/d rounded to the nearest integer, halves upwards
IsNearest(r, n, d) == 2 * d * r - d <= 2 * n /\ 2 * n < 2 * d * r + d

----------------------------------------------------------------------------
(* C1: filterData returns a subsequence of its input in the original       *)
(* order, and the input itself when state, fromDate and toDate are all     *)
(* absent or empty.                                                        *)

C1_FilterSubsequence ==
  (\E r \in {"dashboard-data", "sales-trend", "analytics"} : Responded(r)) =>
    /\ IsSubsequence(filterResult, salesData)
    /\ (~Given(request.state) /\ ~Given(request.fromDate) /\ ~Given(request.toDate))
         => filterResult = salesData

C1_Witness ==
  /\ Responded("analytics")
  /\ Given(request.state) /\ Given(request.fromDate) /\ Given(request.toDate)
  /\ Len(filterResult) = 2
  /\ Len(salesData) = 3
  /\ filterResult[1] # filterResult[2]

----------------------------------------------------------------------------
(* C2: the customers listing holds each distinct (Customer ID, Customer     *)
(* Name) pair of the whole dataset exactly once, so its length is the      *)
(* number of distinct pairs, and it is sorted by name.                     *)

CustomerPairs ==
  {[id |-> salesData[i].CustomerID, name |-> salesData[i].CustomerName] :
     i \in 1..Len(salesData)}

C2_CustomersDistinctPairs ==
  Responded("customers") =>
    /\ response.status = 200
    /\ Range(response.data) = CustomerPairs
    /\ Len(response.data) = Cardinality(CustomerPairs)
    /\ \A i \in 1..(Len(response.data) - 1) :
         NameRank(response.data[i].name) <= NameRank(response.data[i + 1].name)

----------------------------------------------------------------------------
(* C3: the dashboard cards are computed over exactly the records that pass *)
(* the state filter, the inclusive date range and the customerId filter:   *)
(* totalSales and profit are the sums of Sales and Profit rounded to the   *)
(* nearest integer, quantitySold is the sum of Quantity, and               *)
(* discountPercentage is 100 times the mean Discount of the records with   *)
(* Discount > 0 among them, rounded to one decimal place.                  *)

Discounted(S) == {i \in S : salesData[i].Discount > 0}

C3_DashboardCards ==
  Responded("dashboard-data") =>
    LET S == Selected(request, TRUE)
        D == Discounted(S)
        c == response.data.cards
        field(name) == [i \in 1..Len(salesData) |-> salesData[i][name]]
    IN /\ response.status = 200
       /\ IsNearest(c.totalSales, SetSum(field("Sales"), S), 10)
       /\ c.quantitySold = SetSum(field("Quantity"), S)
       /\ IsNearest(c.profit, SetSum(field("Profit"), S), 10)
       /\ D # {} =>
            /\ ~c.discountPercentage.nan
            /\ IsNearest(c.discountPercentage.v,
                         10 * SetSum(field("Discount"), D), Cardinality(D))

\* a customer's records inside a date range, one of them without discount,
\* with a total of Sales that is not a whole number
C3_Witness ==
  /\ Responded("dashboard-data")
  /\ Given(request.customerId) /\ Given(request.fromDate) /\ Given(request.toDate)
  /\ Cardinality(Selected(request, TRUE)) = 2
  /\ Cardinality(Discounted(Selected(request, TRUE))) = 1
  /\ Len(salesData) = 3
  /\ response.data.cards.totalSales = 31
  /\ response.data.cards.discountPercentage = Num(200)

----------------------------------------------------------------------------
(* C4: when no selected record of a dashboard query has Discount > 0,      *)
(* discountPercentage is NaN.                                              *)

C4_DiscountNaN ==
  (Responded("dashboard-data") /\ Discounted(Selected(request, TRUE)) = {}) =>
    response.data.cards.discountPercentage.nan

(* C4 as amended: when no selected record of a dashboard query has         *)
(* Discount > 0, discountPercentage is 0.                                  *)

C4_DiscountZero ==
  (Responded("dashboard-data") /\ Discounted(Selected(request, TRUE)) = {}) =>
    response.data.cards.discountPercentage = Num(0)

C4_Witness ==
  /\ Responded("dashboard-data")
  /\ Cardinality(Selected(request, TRUE)) = 2
  /\ Discounted(Selected(request, TRUE)) = {}
  /\ response.data.cards.discountPercentage = Num(0)

----------------------------------------------------------------------------
(* C6: a trend output has exactly one entry per distinct period key among  *)
(* the selected records, in strictly ascending lexicographic order of the  *)
(* key, and each entry carries the rounded sums of Sales and Profit and    *)
(* the exact sum of Quantity of the records that map to its key.           *)

KeyOfRecord(i) ==
  periodKey(effectivePeriod(request.period), parseDate(salesData[i].OrderDate))

\* the text order of two keys of the same granularity: digits sort before
\* the letters of "NaN"
KeyBefore(a, b) ==
  LET rank(x) == IF x = NaNText THEN 10000 ELSE x
  IN \E i \in 1..Len(a) :
       /\ i <= Len(b)
       /\ rank(a[i]) < rank(b[i])
       /\ \A j \in 1..(i - 1) : a[j] = b[j]

C6_TrendBuckets ==
  (Responded("sales-trend") /\ response.status = 200) =>
    LET out == response.data
        S == Selected(request, TRUE)
        field(name) == [i \in 1..Len(salesData) |-> salesData[i][name]]
    IN /\ {out[j].period : j \in 1..Len(out)} = {KeyOfRecord(i) : i \in S}
       /\ Len(out) = Cardinality({KeyOfRecord(i) : i \in S})
       /\ \A j \in 1..(Len(out) - 1) : KeyBefore(out[j].period, out[j + 1].period)
       /\ \A j \in 1..Len(out) :
            LET G == {i \in S : KeyOfRecord(i) = out[j].period}
            IN /\ IsNearest(out[j].sales, SetSum(field("Sales"), G), 10)
               /\ IsNearest(out[j].profit, SetSum(field("Profit"), G), 10)
               /\ out[j].quantity = SetSum(field("Quantity"), G)

\* three records in two months, the later month met first
C6_Witness ==
  /\ Responded("sales-trend")
  /\ response.status = 200
  /\ effectivePeriod(request.period) = "monthly"
  /\ Len(salesData) = 3
  /\ Len(response.data) = 2
  /\ KeyOfRecord(1) = response.data[2].period
  /\ KeyOfRecord(2) = response.data[1].period
  /\ response.data[2].quantity = 3
  /\ response.data[2].sales = 31

----------------------------------------------------------------------------
(* C7: an analytics query filtered to a customer with zero matching        *)
(* records succeeds with totalOrders = 0 and a NaN avgOrderValue, and      *)
(* counts no record of another customer.                                   *)

C7_CustomerFilteredAnalytics ==
  (/\ Responded("analytics")
   /\ Given(request.customerId)
   /\ Selected(request, TRUE) = {}) =>
    /\ response.status = 200
    /\ response.data.summary.totalOrders = 0
    /\ response.data.summary.avgOrderValue.nan

(* C7 as amended: an analytics query always succeeds; totalOrders is the   *)
(* number of records that pass the state and date filters, whatever the    *)
(* customerId parameter, and when that number is 0 avgOrderValue is NaN.   *)

C7_EmptyAnalytics ==
  Responded("analytics") =>
    /\ response.status = 200
    /\ response.data.summary.totalOrders = Cardinality(Selected(request, FALSE))
    /\ Selected(request, FALSE) = {} =>
         /\ response.data.summary.totalOrders = 0
         /\ response.data.summary.avgOrderValue.nan

C7_Witness ==
  /\ Responded("analytics")
  /\ Len(salesData) = 3
  /\ request.state = "Nevada"
  /\ Given(request.customerId)
  /\ response.status = 200
  /\ response.data.summary.totalOrders = 0
  /\ response.data.summary.avgOrderValue.nan

----------------------------------------------------------------------------
(* C8: a record whose Order Date does not parse never makes a dashboard,   *)
(* analytics, date-range or trend query end in an error, and whenever      *)
(* fromDate or toDate is given the record is left out of the result.       *)

HasBadDate == \E i \in 1..Len(salesData) : salesData[i].OrderDate \notin IsoDates

C8_BadDateNeverErrors ==
  (/\ response # NoResponse
   /\ request.route \in {"dashboard-data", "analytics", "date-range", "sales-trend"}
   /\ HasBadDate) =>
    /\ response.status # 500
    /\ (Given(request.fromDate) \/ Given(request.toDate)) =>
         \A i \in 1..Len(filterResult) : filterResult[i].OrderDate \in IsoDates

----------------------------------------------------------------------------
(* C9: the date-range query answers 404 exactly when no record has the     *)
(* given State, and otherwise succeeds with minDate and maxDate the        *)
(* earliest and latest Order Date among the records of that state.         *)

C9_DateRange ==
  Responded("date-range") =>
    LET S == {i \in 1..Len(salesData) : salesData[i].State = request.state}
    IN /\ response.status = 404 <=> S = {}
       /\ S # {} =>
            /\ response.status = 200
            /\ \E i \in S : salesData[i].OrderDate = response.data.minDate
            /\ \E i \in S : salesData[i].OrderDate = response.data.maxDate
            /\ \A i \in S : /\ DateLeq(response.data.minDate, salesData[i].OrderDate)
                            /\ DateLeq(salesData[i].OrderDate, response.data.maxDate)
            /\ DateLeq(response.data.minDate, response.data.maxDate)

----------------------------------------------------------------------------
(* C10: the period key of a record is the YYYY-MM of its order date when   *)
(* the granularity is "monthly", the YYYY when it is "yearly" and the      *)
(* YYYY-MM-DD for every other supplied value, so that an unrecognized      *)
(* value gives the output of "daily"; a missing granularity gives the      *)
(* output of "monthly".                                                    *)

\* the key the claim gives a record with a date that parses
ClaimedKey(period, date) ==
  IF period = "monthly" THEN <<YMD(date)[1], YMD(date)[2]>>
  ELSE IF period = "yearly" THEN <<YMD(date)[1]>>
  ELSE YMD(date)

C10_PeriodKey ==
  Responded("sales-trend") =>
    /\ request.period = undefined =>
         response = salesTrend([request EXCEPT !.period = "monthly"])
    /\ request.period \notin {undefined, "monthly", "yearly"} =>
         response = salesTrend([request EXCEPT !.period = "daily"])
    /\ (/\ response.status = 200
        /\ \A i \in Selected(request, TRUE) : salesData[i].OrderDate \in IsoDates) =>
         {response.data[j].period : j \in 1..Len(response.data)}
           = {ClaimedKey(IF request.period = undefined THEN "monthly"
                         ELSE request.period,
                         salesData[i].OrderDate) : i \in Selected(request, TRUE)}

----------------------------------------------------------------------------
(* C5: every top-N output (salesByCity, salesByProducts, salesBySubCategory *)
(* of the dashboard and topProducts of the analytics) has at most 10       *)
(* entries, in descending order of the emitted sales value, and no group   *)
(* left out of it has an emitted sales value greater than that of an       *)
(* entry in it.                                                            *)

\* the groups of the selected records S under the grouping field
GroupsOf(S, name) == {salesData[i][name] : i \in S}

\* the Sales total of group g, in tenths
GroupTotal(S, name, g) ==
  SetSum([i \in 1..Len(salesData) |-> salesData[i].Sales],
         {i \in S : salesData[i][name] = g})

\* a total of n tenths is emitted as a value no greater than v: it lies
\* below v + 1/2
EmittedAtMost(n, v) == 2 * n < 2 * 10 * v + 10

\* keys and vals are the keys and emitted sales values of an output
IsTopN(keys, vals, S, name) ==
  LET G == GroupsOf(S, name)
  IN /\ Len(keys) <= 10
     /\ Len(keys) = IF Cardinality(G) < 10 THEN Cardinality(G) ELSE 10
     /\ \A j \in 1..(Len(vals) - 1) : vals[j] >= vals[j + 1]
     /\ \A j \in 1..Len(keys) :
          /\ keys[j] \in G
          /\ IsNearest(vals[j], GroupTotal(S, name, keys[j]), 10)
          /\ \A k \in 1..Len(keys) : k # j => keys[k] # keys[j]
     /\ \A g \in G \ Range(keys) :
          \A j \in 1..Len(vals) : EmittedAtMost(GroupTotal(S, name, g), vals[j])

ChartIsTopN(chart, S, name) ==
  IsTopN([j \in 1..Len(chart) |-> chart[j].key],
         [j \in 1..Len(chart) |-> chart[j].sales], S, name)

C5_TopN ==
  /\ Responded("dashboard-data") =>
       LET S == Selected(request, TRUE)
           ch == response.data.charts
       IN /\ ChartIsTopN(ch.salesByCity, S, "City")
          /\ ChartIsTopN(ch.salesByProducts, S, "ProductName")
          /\ ChartIsTopN(ch.salesBySubCategory, S, "SubCategory")
  /\ Responded("analytics") =>
       LET top == response.data.topProducts
       IN IsTopN([j \in 1..Len(top) |-> top[j].productName],
                 [j \in 1..Len(top) |-> top[j].totalSales],
                 Selected(request, FALSE), "ProductName")

\* eleven cities of unequal sales, the first of them left out
C5_Witness ==
  /\ Responded("dashboard-data")
  /\ Cardinality(GroupsOf(Selected(request, TRUE), "City")) > 10
  /\ Len(response.data.charts.salesByCity) = 10
  /\ response.data.charts.salesByCity[1].sales > response.data.charts.salesByCity[10].sales
  /\ \A j \in 1..10 : response.data.charts.salesByCity[j].key # salesData[1].City

----------------------------------------------------------------------------
(* C11: in every top-N output (salesByCity, salesByProducts,               *)
(* salesBySubCategory, topProducts) two groups of equal emitted sales      *)
(* value stand in the order in which their keys first occurred among the   *)
(* selected records, whatever the key, integer-looking keys included; of   *)
(* the groups tied across position 10 the one that occurred first is kept. *)

\* the place in salesData of the first selected record of group g
FirstOccurrence(S, name, g) ==
  CHOOSE i \in S :
    /\ salesData[i][name] = g
    /\ \A j \in S : salesData[j][name] = g => i <= j

TiesInFirstOccurrenceOrder(keys, vals, S, name) ==
  /\ \A j \in 1..Len(keys) : \A k \in (j + 1)..Len(keys) :
       vals[j] = vals[k] =>
         FirstOccurrence(S, name, keys[j]) < FirstOccurrence(S, name, keys[k])
  /\ \A g \in GroupsOf(S, name) \ Range(keys) :
       \A j \in 1..Len(keys) :
         IsNearest(vals[j], GroupTotal(S, name, g), 10) =>
           FirstOccurrence(S, name, keys[j]) < FirstOccurrence(S, name, g)

ChartTiesInOrder(chart, S, name) ==
  TiesInFirstOccurrenceOrder([j \in 1..Len(chart) |-> chart[j].key],
                             [j \in 1..Len(chart) |-> chart[j].sales], S, name)

C11_TieOrder ==
  /\ Responded("dashboard-data") =>
       LET S == Selected(request, TRUE)
           ch == response.data.charts
       IN /\ ChartTiesInOrder(ch.salesByCity, S, "City")
          /\ ChartTiesInOrder(ch.salesByProducts, S, "ProductName")
          /\ ChartTiesInOrder(ch.salesBySubCategory, S, "SubCategory")
  /\ Responded("analytics") =>
       LET top == response.data.topProducts
       IN TiesInFirstOccurrenceOrder(
            [j \in 1..Len(top) |-> top[j].productName],
            [j \in 1..Len(top) |-> top[j].totalSales],
            Selected(request, FALSE), "ProductName")

----------------------------------------------------------------------------
(* C12 as stated: for every entry of topProducts and regionalPerformance,  *)
(* avgOrderValue is the group's Sales sum rounded to an integer, then      *)
(* divided by the group's record count, the quotient rounded:              *)
(* round(round(sum) / count), not round(sum / count).                      *)
(* C12 as the code has it: avgOrderValue is the group's unrounded Sales    *)
(* sum divided by the group's record count, the quotient rounded to the    *)
(* nearest integer, halves upwards: round(sum / count).                    *)

\* the number of selected records of group g
GroupCount(S, name, g) == Cardinality({i \in S : salesData[i][name] = g})

\* avg is round(round(sum) / count) for a sum in tenths
IsRoundThenDivide(avg, sum, count) ==
  \E r \in (sum \div 10)..((sum \div 10) + 1) :
    IsNearest(r, sum, 10) /\ IsNearest(avg, r, count)

\* avg is round(sum / count) for a sum in tenths
IsDivideThenRound(avg, sum, count) == IsNearest(avg, sum, 10 * count)

C12_RoundThenDivide ==
  (Responded("analytics") /\ response.status = 200) =>
    LET S == Selected(request, FALSE)
        top == response.data.topProducts
        reg == response.data.regionalPerformance
    IN /\ \A j \in 1..Len(top) :
            IsRoundThenDivide(top[j].avgOrderValue,
                              GroupTotal(S, "ProductName", top[j].productName),
                              GroupCount(S, "ProductName", top[j].productName))
       /\ \A j \in 1..Len(reg) :
            IsRoundThenDivide(reg[j].avgOrderValue,
                              GroupTotal(S, "Region", reg[j].region),
                              GroupCount(S, "Region", reg[j].region))

C12_DivideUnrounded ==
  (Responded("analytics") /\ response.status = 200) =>
    LET S == Selected(request, FALSE)
        top == response.data.topProducts
        reg == response.data.regionalPerformance
    IN /\ \A j \in 1..Len(top) :
            IsDivideThenRound(top[j].avgOrderValue,
                              GroupTotal(S, "ProductName", top[j].productName),
                              GroupCount(S, "ProductName", top[j].productName))
       /\ \A j \in 1..Len(reg) :
            IsDivideThenRound(reg[j].avgOrderValue,
                              GroupTotal(S, "Region", reg[j].region),
                              GroupCount(S, "Region", reg[j].region))

\* an answer with a product and a region of two records each, where
\* rounding the sum first would give another average
C12_Witness ==
  /\ Responded("analytics")
  /\ response.status = 200
  /\ LET S == Selected(request, FALSE)
         top == response.data.topProducts
         reg == response.data.regionalPerformance
     IN /\ \E j \in 1..Len(top) :
             LET sum == GroupTotal(S, "ProductName", top[j].productName)
                 count == GroupCount(S, "ProductName", top[j].productName)
             IN /\ count >= 2
                /\ top[j].orderCount = count
                /\ IsDivideThenRound(top[j].avgOrderValue, sum, count)
                /\ ~IsRoundThenDivide(top[j].avgOrderValue, sum, count)
        /\ \E j \in 1..Len(reg) :
             LET sum == GroupTotal(S, "Region", reg[j].region)
                 count == GroupCount(S, "Region", reg[j].region)
             IN /\ count >= 2
                /\ reg[j].orders = count
                /\ IsDivideThenRound(reg[j].avgOrderValue, sum, count)
                /\ ~IsRoundThenDivide(reg[j].avgOrderValue, sum, count)

====
